---- MODULE Spec2Model ----
(***************************************************************************)
(* GitHub webhook ingestion and PR review orchestration.                   *)
(*                                                                         *)
(*   src/openhands/server/routes/webhooks.py          (the HTTP handler)   *)
(*   src/openhands/integrations/github/pr_reviewer.py (PRReviewer)         *)
(*                                                                         *)
(* A delivery is one POST /api/webhooks/github.  The handler runs as one   *)
(* cooperative task: code between two awaits is atomic, and every awaited  *)
(* gateway or conversation call is one action of the model (the call is    *)
(* made and its outcome, success or an exception, is drawn).               *)
(*                                                                         *)
(* Strings that the code takes apart (the signature header) are sequences  *)
(* of characters; the 64 hex characters of a digest are one element, the   *)
(* symbolic term hmac(key,msg), so two digests are equal exactly when key  *)
(* and message are (collision resistance).  JSON values are tagged records.*)
(***************************************************************************)
EXTENDS Integers, Sequences, FiniteSets, TLC

\* Longest changed-file list the gateway answers with.
MaxFiles == 2

\* Concurrent deliveries (request handler tasks).
Deliveries == {"d1", "d2"}

-----------------------------------------------------------------------------
(* JSON values as json.loads builds them, and dict.get *)

None == [t |-> "null"]
Str(s) == [t |-> "str", s |-> s]
Num(n) == [t |-> "int", n |-> n]
List == [t |-> "list"]
Dict(f) == [t |-> "dict", f |-> f]
EmptyDict == Dict([k \in {} |-> None])

\* A key a response dict does not carry.
Missing == [t |-> "missing"]

\* hasattr(v, 'get'): of the JSON types only dict has .get
IsDict(v) == v.t = "dict"

\* d.get(key, default)
get(d, key, default) == IF key \in DOMAIN d.f THEN d.f[key] ELSE default

\* Python truthiness of a str (None and '' are both falsy; an unset
\* Optional[str] is the empty string here)
Truthy(s) == s # ""

-----------------------------------------------------------------------------
(* Request bodies: the raw bytes, and what json.loads makes of them *)

B_opened     == "{\"action\":\"opened\",\"pull_request\":{\"number\":1},\"repository\":{\"full_name\":\"o/r\"}}"
B_sync_other == "{\"action\":\"synchronize\",\"pull_request\":{\"number\":2},\"repository\":{\"full_name\":\"x/y\"}}"
B_closed     == "{\"action\":\"closed\",\"pull_request\":{\"number\":1},\"repository\":{\"full_name\":\"o/r\"}}"
B_empty      == "{}"
B_no_repo    == "{\"action\":\"opened\",\"pull_request\":{\"number\":1}}"
B_no_name    == "{\"action\":\"opened\",\"pull_request\":{\"number\":1},\"repository\":{}}"
B_repo_null  == "{\"action\":\"opened\",\"pull_request\":{\"number\":1},\"repository\":null}"
B_pr_null    == "{\"action\":\"opened\",\"pull_request\":null,\"repository\":{\"full_name\":\"o/r\"}}"
B_list       == "[]"
B_bad_json   == "{\"action\":"
B_bad_utf8   == "\\xff"

Bodies ==
    { B_opened, B_sync_other, B_closed, B_empty, B_no_repo, B_no_name,
      B_repo_null, B_pr_null, B_list, B_bad_json, B_bad_utf8 }

Parsed(v) == [ok |-> TRUE, value |-> v, exc |-> ""]
ParseError(e) == [ok |-> FALSE, value |-> None, exc |-> e]

PR(n) == Dict([number |-> Num(n)])
Repo(name) == Dict([full_name |-> Str(name)])

\* json.loads(payload_bytes): the value, or the exception it raises.  Bytes
\* that are not UTF-8 raise UnicodeDecodeError, which is a ValueError but not
\* a json.JSONDecodeError.
json_loads(b) ==
    CASE b = B_opened     -> Parsed(Dict([action |-> Str("opened"), pull_request |-> PR(1), repository |-> Repo("o/r")]))
      [] b = B_sync_other -> Parsed(Dict([action |-> Str("synchronize"), pull_request |-> PR(2), repository |-> Repo("x/y")]))
      [] b = B_closed     -> Parsed(Dict([action |-> Str("closed"), pull_request |-> PR(1), repository |-> Repo("o/r")]))
      [] b = B_empty      -> Parsed(EmptyDict)
      [] b = B_no_repo    -> Parsed(Dict([action |-> Str("opened"), pull_request |-> PR(1)]))
      [] b = B_no_name    -> Parsed(Dict([action |-> Str("opened"), pull_request |-> PR(1), repository |-> EmptyDict]))
      [] b = B_repo_null  -> Parsed(Dict([action |-> Str("opened"), pull_request |-> PR(1), repository |-> None]))
      [] b = B_pr_null    -> Parsed(Dict([action |-> Str("opened"), pull_request |-> None, repository |-> Repo("o/r")]))
      [] b = B_list       -> Parsed(List)
      [] b = B_bad_json   -> ParseError("JSONDecodeError")
      [] b = B_bad_utf8   -> ParseError("UnicodeDecodeError")

-----------------------------------------------------------------------------
(* verify_signature *)

\* 'sha256='
Sha256Prefix == <<"s", "h", "a", "2", "5", "6", "=">>
Sha1Prefix == <<"s", "h", "a", "1", "=">>

\* A character outside ASCII (a header value is decoded as latin-1).
NonAscii == "\\xe9"

\* s.startswith(p)
startswith(s, p) == Len(s) >= Len(p) /\ SubSeq(s, 1, Len(p)) = p

\* hmac.new(secret.encode(), msg=payload, digestmod=hashlib.sha256).hexdigest()
hexdigest(secret, payload) == <<"hmac(" \o secret \o "," \o payload \o ")">>

\* hmac.compare_digest(a, b) on two str: TypeError unless both are ASCII
compare_digest(a, b) ==
    IF \E i \in 1..Len(a) : a[i] = NonAscii THEN "TypeError"
    ELSE IF a = b THEN "True"
    ELSE "False"

verify_signature(payload, signature_header, secret) ==
    IF ~startswith(signature_header, Sha256Prefix) THEN "False"
    ELSE LET signature == SubSeq(signature_header, 8, Len(signature_header))
             expected_signature == hexdigest(secret, payload)
         IN compare_digest(signature, expected_signature)

-----------------------------------------------------------------------------
(* Configuration, loaded once at import: webhook_config *)

Secrets == {"", "s3cret"}
AllowLists == {<< >>, <<"o/r">>}

WebhookConfig ==
    [secret : Secrets, allowed_repositories : AllowLists, auto_fix : BOOLEAN]

\* x in list
InList(x, l) == \E i \in DOMAIN l : x = Str(l[i])

-----------------------------------------------------------------------------
(* Responses *)

HTTP_401_UNAUTHORIZED == 401
HTTP_400_BAD_REQUEST == 400

\* The JSON body of a 200 answer.  message is the f-string's template and
\* arg the value formatted into it.
Response(message, arg, pr_number, repo, conversation_id) ==
    [status |-> 200, detail |-> "", message |-> message, arg |-> arg,
     pr_number |-> pr_number, repo |-> repo, conversation_id |-> conversation_id]

Message(message, arg) == Response(message, arg, Missing, Missing, Missing)

\* raise HTTPException(status_code, detail)
HTTPException(status_code, detail) ==
    [status |-> status_code, detail |-> detail, message |-> "", arg |-> Missing,
     pr_number |-> Missing, repo |-> Missing, conversation_id |-> Missing]

\* An exception nothing catches leaves the handler: the server answers 500.
Unhandled(exc) == HTTPException(500, exc)

NoResponse == HTTPException(0, "")

-----------------------------------------------------------------------------
(* The handler up to its first gateway call: github_webhook and the part of *)
(* handle_pull_request_event before the try block                          *)

Respond(r) == [kind |-> "respond", resp |-> r, repo_name |-> Missing, pr_number |-> Missing]
Raise(exc) == Respond(Unhandled(exc))
Review(repo_name, pr_number) ==
    [kind |-> "review", resp |-> NoResponse, repo_name |-> repo_name, pr_number |-> pr_number]

\* Lines 132-157: the outcome is an answer, an exception that escapes, or
\* the construction of PRReviewer(repo_name, pr_number, auto_fix).
handle_pull_request_event(payload, cfg) ==
    IF ~IsDict(payload) THEN Raise("AttributeError")
    ELSE
    LET action == get(payload, "action", None)
        pr_data == get(payload, "pull_request", EmptyDict)
        repository == get(payload, "repository", EmptyDict)
    IN
    IF action \notin {Str("opened"), Str("synchronize")}
    THEN Respond(Message("PR action {action} not handled", action))
    ELSE IF ~IsDict(repository) THEN Raise("AttributeError")
    ELSE
    LET repo_name == get(repository, "full_name", None) IN
    IF Len(cfg.allowed_repositories) > 0 /\ ~InList(repo_name, cfg.allowed_repositories)
    THEN Respond(Message("Repository {repo_name} not configured for PR reviews", repo_name))
    ELSE IF ~IsDict(pr_data) THEN Raise("AttributeError")
    ELSE
    LET pr_number == get(pr_data, "number", None)
        head == get(pr_data, "head", EmptyDict)
        base == get(pr_data, "base", EmptyDict)
    IN
    IF ~IsDict(head) \/ ~IsDict(base) THEN Raise("AttributeError")
    ELSE Review(repo_name, pr_number)

\* Lines 102-119: parse, then dispatch on X-GitHub-Event.
parse_and_dispatch(x_github_event, payload_bytes, cfg) ==
    LET parsed == json_loads(payload_bytes) IN
    IF ~parsed.ok
    THEN IF parsed.exc = "JSONDecodeError"
         THEN Respond(HTTPException(HTTP_400_BAD_REQUEST, "Invalid JSON payload"))
         ELSE Raise(parsed.exc)
    ELSE IF x_github_event = "pull_request"
    THEN handle_pull_request_event(parsed.value, cfg)
    ELSE IF x_github_event = "ping"
    THEN Respond(Message("Webhook received successfully", Missing))
    ELSE Respond(Message("Event type {x_github_event} not handled", Str(x_github_event)))

\* The guard of line 92 without its test of the secret.
signature_checked_whatever_secret(x_hub_signature_256, cfg) ==
    x_hub_signature_256.present /\ Len(x_hub_signature_256.value) > 0

\* Line 92: the guard of the signature check.  An absent header is None and
\* falsy; so is a header that is present and empty.
signature_checked(x_hub_signature_256, cfg) ==
    Truthy(cfg.secret) /\ x_hub_signature_256.present /\ Len(x_hub_signature_256.value) > 0

\* Lines 88-119.  sig records what the signature check did.
github_webhook(x_github_event, x_hub_signature_256, payload_bytes, cfg) ==
    IF signature_checked(x_hub_signature_256, cfg)
    THEN LET v == verify_signature(payload_bytes, x_hub_signature_256.value, cfg.secret) IN
         IF v = "TypeError" THEN [sig |-> v, out |-> Raise("TypeError")]
         ELSE IF v = "False"
         THEN [sig |-> v, out |-> Respond(HTTPException(HTTP_401_UNAUTHORIZED, "Invalid signature"))]
         ELSE [sig |-> v, out |-> parse_and_dispatch(x_github_event, payload_bytes, cfg)]
    ELSE [sig |-> "skipped", out |-> parse_and_dispatch(x_github_event, payload_bytes, cfg)]

-----------------------------------------------------------------------------
(* Deliveries the sender can make *)

Events == {"pull_request", "ping", "push"}

Header(v) == [present |-> TRUE, value |-> v]
NoHeader == [present |-> FALSE, value |-> << >>]

\* Another key than the configured one ("valid signature with wrong secret").
OtherSecret == "0ther"

\* X-Hub-Signature-256 values tried with body b: none, empty, the right one,
\* one made with another key, one made for another body, the right digest
\* without its prefix or under a sha1= prefix, the bare prefix, a digest with
\* a trailing character, and a non-ASCII digest.
HeadersFor(b, cfg) ==
    LET key == IF Truthy(cfg.secret) THEN cfg.secret ELSE OtherSecret IN
    { NoHeader,
      Header(<< >>),
      Header(Sha256Prefix \o hexdigest(key, b)),
      Header(Sha256Prefix \o hexdigest(OtherSecret, b)),
      Header(Sha256Prefix \o hexdigest(key, B_empty)),
      Header(hexdigest(key, b)),
      Header(Sha1Prefix \o hexdigest(key, b)),
      Header(Sha256Prefix),
      Header(Sha256Prefix \o hexdigest(key, b) \o <<"0">>),
      Header(Sha256Prefix \o <<NonAscii>>) }

\* The deliveries the sender makes: any event with any body and header, or
\* (the same pull_request event delivered twice) 'opened' for PR 1 of o/r,
\* unsigned or rightly signed.
EventsFrom(who) == IF who = "any" THEN Events ELSE {"pull_request"}
BodiesFrom(who) == IF who = "any" THEN Bodies ELSE {B_opened}
HeadersFrom(who, b, cfg) ==
    IF who = "any" THEN HeadersFor(b, cfg)
    ELSE {NoHeader, Header(Sha256Prefix \o hexdigest(cfg.secret, b))}

Request(x_github_event, x_hub_signature_256, payload_bytes) ==
    [event |-> x_github_event, header |-> x_hub_signature_256, body |-> payload_bytes]

NoRequest == Request("", NoHeader, "")

-----------------------------------------------------------------------------
(* What the gateway answers: the changed files of a pull request *)

ChangedFile(filename, status, patch, blob_url) ==
    [filename |-> filename, status |-> status, patch |-> patch, blob_url |-> blob_url]

\* patch is '' when the API response carries none; blob_url is '' likewise.
F_modified == ChangedFile("a.py", "modified", "@@ -1 +1 @@", "https://github.com/o/r/blob/abc123/a.py")
F_removed_patch == ChangedFile("b.py", "removed", "@@ -1 +0,0 @@", "https://github.com/o/r/blob/abc123/b.py")
F_added == ChangedFile("c.bin", "added", "", "https://github.com/o/r/blob/abc123/c.bin")
F_removed == ChangedFile("d.bin", "removed", "", "https://github.com/o/r/blob/abc123/d.bin")
F_no_blob == ChangedFile("e.bin", "renamed", "", "")

ChangedFiles == {F_modified, F_removed_patch, F_added, F_removed, F_no_blob}

FileLists == UNION {[1..n -> ChangedFiles] : n \in 0..MaxFiles}

\* The file lists the gateway answers with while one event is delivered
\* twice: files whose content is fetched alternate with files with a patch.
FileListsFor(who) ==
    IF who = "any" THEN FileLists
    ELSE {[i \in 1..n |-> IF i % 2 = 1 THEN F_added ELSE F_modified] : n \in 0..MaxFiles}

\* uuid.uuid4().hex: the n-th id drawn; ids drawn are pairwise different.
Uuid(n) == [t |-> "uuid", n |-> n]

\* One call to an external collaborator.  idx is the position in pr_files of
\* the file the call is made for (0: none), kind the message that is sent.
Call(api, i, cid, kind, ok) ==
    [api |-> api, idx |-> i, cid |-> cid, kind |-> kind, ok |-> ok]

PRReviewer(repo_name, pr_number, auto_fix) ==
    [repo_name |-> repo_name, pr_number |-> pr_number, auto_fix |-> auto_fix]

NoReviewer == PRReviewer(Missing, Missing, FALSE)

NoResult == [conversation_id |-> Missing, pr_number |-> Missing, repo_name |-> Missing]

-----------------------------------------------------------------------------
(* _add_pr_diff_to_conversation: the loop between two awaits *)

RECURSIVE LoopFrom_any_status(_, _, _)
\* LoopFrom with line 228 reduced to `if not patch`: the content of a
\* removed file without a patch is fetched too.
LoopFrom_any_status(files, i, have_import) ==
    IF i > Len(files)
    THEN [pc |-> "send_review", idx |-> i, exc |-> "", log |-> << >>]
    ELSE LET file == files[i] IN
         IF file.patch = ""
         THEN IF file.blob_url = ""
              THEN LET r == LoopFrom_any_status(files, i + 1, have_import) IN
                   [r EXCEPT !.log = <<"Error fetching file content">> \o r.log]
              ELSE [pc |-> "fetch_content", idx |-> i, exc |-> "", log |-> << >>]
         ELSE IF have_import
              THEN [pc |-> "send_patch", idx |-> i, exc |-> "", log |-> << >>]
              ELSE [pc |-> "raise", idx |-> i, exc |-> "UnboundLocalError", log |-> << >>]

RECURSIVE LoopFrom(_, _, _)
\* Runs the for loop of lines 223-272 from iteration i, with MessageAction
\* bound or not, up to the next awaited call, an exception that leaves the
\* loop, or the end of pr_files.  MessageAction is a local name of the
\* function (the import of line 243 assigns it), so line 263 raises
\* UnboundLocalError until line 243 has run.  A blob_url without '/' makes
\* split('/')[-2] raise IndexError inside the try: logged, next file.
LoopFrom(files, i, have_import) ==
    IF i > Len(files)
    THEN [pc |-> "send_review", idx |-> i, exc |-> "", log |-> << >>]
    ELSE LET file == files[i] IN
         IF file.patch = "" /\ file.status # "removed"
         THEN IF file.blob_url = ""
              THEN LET r == LoopFrom(files, i + 1, have_import) IN
                   [r EXCEPT !.log = <<"Error fetching file content">> \o r.log]
              ELSE [pc |-> "fetch_content", idx |-> i, exc |-> "", log |-> << >>]
         ELSE IF file.patch # ""
         THEN IF have_import
              THEN [pc |-> "send_patch", idx |-> i, exc |-> "", log |-> << >>]
              ELSE [pc |-> "raise", idx |-> i, exc |-> "UnboundLocalError", log |-> << >>]
         ELSE LoopFrom(files, i + 1, have_import)

-----------------------------------------------------------------------------
(* State *)

VARIABLES
    config,           \* webhook_config
    sender,           \* what the code host delivers: any request, or one event twice
    pc,               \* where each delivery's handler task stands
    req,              \* the delivery: event header, signature header, body
    sig,              \* what the signature check of the delivery did
    resp,             \* the HTTP answer, NoResponse until the handler ends
    reviewer,         \* the PRReviewer built for the delivery
    pr_files,         \* review_pr: pr_files
    idx,              \* _add_pr_diff_to_conversation: position in pr_files
    imported,         \* _add_pr_diff_to_conversation: MessageAction is bound
    conversation_id,  \* review_pr: conversation_id
    result,           \* what review_pr returned
    calls,            \* the external calls of the delivery, in order
    log,              \* logger lines written by the cycle
    conversations,    \* conversations that exist at the conversation manager
    uuids             \* number of uuid4() draws so far

vars == <<config, sender, pc, req, sig, resp, reviewer, pr_files, idx, imported,
          conversation_id, result, calls, log, conversations, uuids>>

cycle_vars == <<pr_files, idx, imported, conversation_id, result, calls, log,
                conversations, uuids>>

InitWith(started, deliveries, configs) ==
    /\ config \in configs
    /\ sender = deliveries
    /\ pc = [d \in Deliveries |-> IF d \in started THEN "idle" ELSE "off"]
    /\ req = [d \in Deliveries |-> NoRequest]
    /\ sig = [d \in Deliveries |-> ""]
    /\ resp = [d \in Deliveries |-> NoResponse]
    /\ reviewer = [d \in Deliveries |-> NoReviewer]
    /\ pr_files = [d \in Deliveries |-> << >>]
    /\ idx = [d \in Deliveries |-> 0]
    /\ imported = [d \in Deliveries |-> FALSE]
    /\ conversation_id = [d \in Deliveries |-> Missing]
    /\ result = [d \in Deliveries |-> NoResult]
    /\ calls = [d \in Deliveries |-> << >>]
    /\ log = [d \in Deliveries |-> << >>]
    /\ conversations = {}
    /\ uuids = 0

\* One delivery, of any request.
Init == InitWith({"d1"}, "any", WebhookConfig)

\* Two concurrent deliveries of the same pull_request event, with or without
\* a secret configured; no allow-list.
InitConcurrent ==
    InitWith(Deliveries, "same_event",
             {c \in WebhookConfig : c.allowed_repositories = << >> /\ ~c.auto_fix})

-----------------------------------------------------------------------------
(* Actions *)

\* POST /api/webhooks/github: github_webhook and handle_pull_request_event
\* up to the first await of review_pr.
Deliver(d) ==
    /\ pc[d] = "idle"
    /\ \E e \in EventsFrom(sender), b \in BodiesFrom(sender) :
       \E h \in HeadersFrom(sender, b, config) :
          LET r == github_webhook(e, h, b, config) IN
          /\ req' = [req EXCEPT ![d] = Request(e, h, b)]
          /\ sig' = [sig EXCEPT ![d] = r.sig]
          /\ IF r.out.kind = "review"
             THEN /\ reviewer' = [reviewer EXCEPT ![d] =
                        PRReviewer(r.out.repo_name, r.out.pr_number, config.auto_fix)]
                  /\ pc' = [pc EXCEPT ![d] = "fetch_details"]
                  /\ UNCHANGED resp
             ELSE /\ resp' = [resp EXCEPT ![d] = r.out.resp]
                  /\ pc' = [pc EXCEPT ![d] = "done"]
                  /\ UNCHANGED reviewer
    /\ UNCHANGED <<config, sender, cycle_vars>>

\* ErrorResponse that also carries the conversation id of the cycle.
ErrorResponse_with_id(d, exc) ==
    Response("Error processing PR review: {e}", Str(exc),
             reviewer[d].pr_number, reviewer[d].repo_name, conversation_id[d])

\* Lines 176-182: the except clause of handle_pull_request_event.
ErrorResponse(d, exc) ==
    Response("Error processing PR review: {e}", Str(exc),
             reviewer[d].pr_number, reviewer[d].repo_name, Missing)

\* An exception leaves review_pr and is caught by the handler.
Fail(d, exc) ==
    /\ resp' = [resp EXCEPT ![d] = ErrorResponse(d, exc)]
    /\ pc' = [pc EXCEPT ![d] = "done"]

\* The loop of _add_pr_diff_to_conversation goes on from r = LoopFrom(..),
\* after the lines lg were logged.
Resume(d, r, lg) ==
    /\ idx' = [idx EXCEPT ![d] = r.idx]
    /\ IF r.pc = "raise"
       THEN /\ Fail(d, r.exc)
            /\ log' = [log EXCEPT ![d] = log[d] \o lg \o r.log \o <<"Error processing PR review">>]
       ELSE /\ pc' = [pc EXCEPT ![d] = r.pc]
            /\ log' = [log EXCEPT ![d] = log[d] \o lg \o r.log]
            /\ UNCHANGED resp

\* _fetch_pr_details: GET /repos/{repo}/pulls/{number}
FetchDetails(d) ==
    /\ pc[d] = "fetch_details"
    /\ \E ok \in BOOLEAN :
          /\ calls' = [calls EXCEPT ![d] = Append(calls[d], Call("get_pr", 0, Missing, "", ok))]
          /\ IF ok
             THEN pc' = [pc EXCEPT ![d] = "fetch_files"] /\ UNCHANGED <<resp, log>>
             ELSE /\ Fail(d, "GatewayError")
                  /\ log' = [log EXCEPT ![d] = Append(log[d], "Error processing PR review")]
    /\ UNCHANGED <<config, sender, req, sig, reviewer, pr_files, idx, imported,
                   conversation_id, result, conversations, uuids>>

\* FetchFiles with the failure of the file-list fetch swallowed: the cycle
\* goes on with an empty file list.
FetchFiles_swallowed(d) ==
    /\ pc[d] = "fetch_files"
    /\ \E ok \in BOOLEAN :
          /\ calls' = [calls EXCEPT ![d] = Append(calls[d], Call("get_files", 0, Missing, "", ok))]
          /\ \E files \in FileListsFor(sender) :
                pr_files' = [pr_files EXCEPT ![d] = IF ok THEN files ELSE << >>]
          /\ pc' = [pc EXCEPT ![d] = "create_conversation"]
          /\ UNCHANGED <<resp, log>>
    /\ UNCHANGED <<config, sender, req, sig, reviewer, idx, imported,
                   conversation_id, result, conversations, uuids>>

\* _fetch_pr_files: GET /repos/{repo}/pulls/{number}/files
FetchFiles(d) ==
    /\ pc[d] = "fetch_files"
    /\ \E ok \in BOOLEAN :
          /\ calls' = [calls EXCEPT ![d] = Append(calls[d], Call("get_files", 0, Missing, "", ok))]
          /\ IF ok
             THEN /\ \E files \in FileListsFor(sender) : pr_files' = [pr_files EXCEPT ![d] = files]
                  /\ pc' = [pc EXCEPT ![d] = "create_conversation"]
                  /\ UNCHANGED <<resp, log>>
             ELSE /\ Fail(d, "GatewayError")
                  /\ log' = [log EXCEPT ![d] = Append(log[d], "Error processing PR review")]
                  /\ UNCHANGED pr_files
    /\ UNCHANGED <<config, sender, req, sig, reviewer, idx, imported,
                   conversation_id, result, conversations, uuids>>

\* CreateConversation with one id for every cycle (drawn once, not per
\* call).
CreateConversation_shared_id(d) ==
    /\ pc[d] = "create_conversation"
    /\ LET cid == Uuid(1) IN
       /\ uuids' = 1
       /\ \E ok \in BOOLEAN :
          /\ calls' = [calls EXCEPT ![d] =
                Append(calls[d], Call("create_new_conversation", 0, cid, "initial", ok))]
          /\ IF ok
             THEN /\ conversations' = conversations \cup {cid}
                  /\ conversation_id' = [conversation_id EXCEPT ![d] = cid]
                  /\ Resume(d, LoopFrom(pr_files[d], 1, FALSE), << >>)
             ELSE /\ Fail(d, "ConversationError")
                  /\ log' = [log EXCEPT ![d] = Append(log[d], "Error processing PR review")]
                  /\ UNCHANGED <<conversations, conversation_id, idx>>
    /\ UNCHANGED <<config, sender, req, sig, reviewer, pr_files, imported, result>>

\* _create_conversation: draws the id, awaits create_new_conversation; on
\* success review_pr enters _add_pr_diff_to_conversation.
CreateConversation(d) ==
    /\ pc[d] = "create_conversation"
    /\ LET cid == Uuid(uuids + 1) IN
       /\ uuids' = uuids + 1
       /\ \E ok \in BOOLEAN :
          /\ calls' = [calls EXCEPT ![d] =
                Append(calls[d], Call("create_new_conversation", 0, cid, "initial", ok))]
          /\ IF ok
             THEN /\ conversations' = conversations \cup {cid}
                  /\ conversation_id' = [conversation_id EXCEPT ![d] = cid]
                  /\ Resume(d, LoopFrom(pr_files[d], 1, FALSE), << >>)
             ELSE /\ Fail(d, "ConversationError")
                  /\ log' = [log EXCEPT ![d] = Append(log[d], "Error processing PR review")]
                  /\ UNCHANGED <<conversations, conversation_id, idx>>
    /\ UNCHANGED <<config, sender, req, sig, reviewer, pr_files, imported, result>>

\* Lines 231-239: GET /repos/{repo}/contents/{filename} for a file without
\* a patch.  The answer is a file, something else, or an exception, which
\* line 256 catches.
FetchContent(d) ==
    /\ pc[d] = "fetch_content"
    /\ \E answer \in {"file", "other", "error"} :
          /\ calls' = [calls EXCEPT ![d] =
                Append(calls[d], Call("get_content", idx[d], Missing, "", answer # "error"))]
          /\ CASE answer = "file" ->
                    /\ imported' = [imported EXCEPT ![d] = TRUE]
                    /\ pc' = [pc EXCEPT ![d] = "send_content"]
                    /\ UNCHANGED <<idx, resp, log>>
               [] answer = "other" ->
                    /\ Resume(d, LoopFrom(pr_files[d], idx[d] + 1, imported[d]), << >>)
                    /\ UNCHANGED imported
               [] answer = "error" ->
                    /\ Resume(d, LoopFrom(pr_files[d], idx[d] + 1, imported[d]),
                              <<"Error fetching file content">>)
                    /\ UNCHANGED imported
    /\ UNCHANGED <<config, sender, req, sig, reviewer, pr_files, conversation_id, result,
                   conversations, uuids>>

\* SendContent with the send outside the try: its failure leaves the loop.
SendContent_fatal(d) ==
    /\ pc[d] = "send_content"
    /\ \E ok \in BOOLEAN :
          /\ calls' = [calls EXCEPT ![d] =
                Append(calls[d], Call("send_event", idx[d], conversation_id[d], "content", ok))]
          /\ IF ok
             THEN Resume(d, LoopFrom(pr_files[d], idx[d] + 1, imported[d]), << >>)
             ELSE /\ Fail(d, "ConversationError")
                  /\ log' = [log EXCEPT ![d] = Append(log[d], "Error processing PR review")]
                  /\ UNCHANGED idx
    /\ UNCHANGED <<config, sender, req, sig, reviewer, pr_files, imported, conversation_id,
                   result, conversations, uuids>>

\* Lines 249-257: the file's content is sent; the send is inside the try,
\* so its failure is logged and the loop goes on.
SendContent(d) ==
    /\ pc[d] = "send_content"
    /\ \E ok \in BOOLEAN :
          /\ calls' = [calls EXCEPT ![d] =
                Append(calls[d], Call("send_event", idx[d], conversation_id[d], "content", ok))]
          /\ Resume(d, LoopFrom(pr_files[d], idx[d] + 1, imported[d]),
                    IF ok THEN << >> ELSE <<"Error fetching file content">>)
    /\ UNCHANGED <<config, sender, req, sig, reviewer, pr_files, imported, conversation_id,
                   result, conversations, uuids>>

\* SendPatch with the loop not advancing after the send: the same file is
\* taken up again.
SendPatch_again(d) ==
    /\ pc[d] = "send_patch"
    /\ \E ok \in BOOLEAN :
          /\ calls' = [calls EXCEPT ![d] =
                Append(calls[d], Call("send_event", idx[d], conversation_id[d], "patch", ok))]
          /\ IF ok
             THEN Resume(d, LoopFrom(pr_files[d], idx[d], imported[d]), << >>)
             ELSE /\ Fail(d, "ConversationError")
                  /\ log' = [log EXCEPT ![d] = Append(log[d], "Error processing PR review")]
                  /\ UNCHANGED idx
    /\ UNCHANGED <<config, sender, req, sig, reviewer, pr_files, imported, conversation_id,
                   result, conversations, uuids>>

\* Lines 266-272: the file's patch is sent; nothing catches a failure.
SendPatch(d) ==
    /\ pc[d] = "send_patch"
    /\ \E ok \in BOOLEAN :
          /\ calls' = [calls EXCEPT ![d] =
                Append(calls[d], Call("send_event", idx[d], conversation_id[d], "patch", ok))]
          /\ IF ok
             THEN Resume(d, LoopFrom(pr_files[d], idx[d] + 1, imported[d]), << >>)
             ELSE /\ Fail(d, "ConversationError")
                  /\ log' = [log EXCEPT ![d] = Append(log[d], "Error processing PR review")]
                  /\ UNCHANGED idx
    /\ UNCHANGED <<config, sender, req, sig, reviewer, pr_files, imported, conversation_id,
                   result, conversations, uuids>>

\* _create_fix_pr, lines 336-363: logs that auto-fix is not implemented and
\* returns None.  Nothing in review_pr calls it.
create_fix_pr == [log |-> "Auto-fix not implemented yet", fix_pr_url |-> None]

\* ReviewResult with an id drawn for the result instead of the cycle's.
ReviewResult_fresh_id(d) ==
    [conversation_id |-> Uuid(uuids + 1),
     pr_number |-> reviewer[d].pr_number,
     repo_name |-> reviewer[d].repo_name]

\* review_pr's result dict, lines 401-405
ReviewResult(d) ==
    [conversation_id |-> conversation_id[d],
     pr_number |-> reviewer[d].pr_number,
     repo_name |-> reviewer[d].repo_name]

\* SendReview with the failure of the send swallowed: review_pr returns.
SendReview_swallowed(d) ==
    /\ pc[d] = "send_review"
    /\ \E ok \in BOOLEAN :
          /\ calls' = [calls EXCEPT ![d] =
                Append(calls[d], Call("send_event", 0, conversation_id[d], "review_request", ok))]
          /\ result' = [result EXCEPT ![d] = ReviewResult(d)]
          /\ resp' = [resp EXCEPT ![d] =
                Response("PR review initiated", Missing, reviewer[d].pr_number,
                         reviewer[d].repo_name, ReviewResult(d).conversation_id)]
          /\ pc' = [pc EXCEPT ![d] = "done"]
          /\ UNCHANGED log
    /\ UNCHANGED <<config, sender, req, sig, reviewer, pr_files, idx, imported,
                   conversation_id, conversations, uuids>>

\* _add_review_request_to_conversation, then review_pr returns and the
\* handler answers (lines 170-175).
SendReview(d) ==
    /\ pc[d] = "send_review"
    /\ \E ok \in BOOLEAN :
          /\ calls' = [calls EXCEPT ![d] =
                Append(calls[d], Call("send_event", 0, conversation_id[d], "review_request", ok))]
          /\ IF ok
             THEN /\ result' = [result EXCEPT ![d] = ReviewResult(d)]
                  /\ resp' = [resp EXCEPT ![d] =
                        Response("PR review initiated", Missing, reviewer[d].pr_number,
                                 reviewer[d].repo_name, ReviewResult(d).conversation_id)]
                  /\ pc' = [pc EXCEPT ![d] = "done"]
                  /\ UNCHANGED log
             ELSE /\ Fail(d, "ConversationError")
                  /\ log' = [log EXCEPT ![d] = Append(log[d], "Error processing PR review")]
                  /\ UNCHANGED result
    /\ UNCHANGED <<config, sender, req, sig, reviewer, pr_files, idx, imported,
                   conversation_id, conversations, uuids>>

Next ==
    \E d \in Deliveries :
        \/ Deliver(d)
        \/ FetchDetails(d)
        \/ FetchFiles(d)
        \/ CreateConversation(d)
        \/ FetchContent(d)
        \/ SendContent(d)
        \/ SendPatch(d)
        \/ SendReview(d)

Spec == Init /\ [][Next]_vars

SpecConcurrent == InitConcurrent /\ [][Next]_vars

-----------------------------------------------------------------------------
(* Vocabulary of the properties *)

Delivered(d) == pc[d] \notin {"off", "idle"}
Answered(d) == pc[d] = "done"

\* The orchestrator was invoked: a PRReviewer was built for the delivery.
OrchestratorInvoked(d) == reviewer[d] # NoReviewer

\* The header is 'sha256=' followed by the hex HMAC-SHA256 of the body.
ExpectedHeader(d) == Sha256Prefix \o hexdigest(config.secret, req[d].body)

\* Positions in calls[d] of the calls to one of apis.
CallsTo(d, apis) == {i \in DOMAIN calls[d] : calls[d][i].api \in apis}

\* Positions in calls[d] of the messages of one kind sent to a conversation.
Sends(d, kind) ==
    {i \in DOMAIN calls[d] : calls[d][i].api = "send_event" /\ calls[d][i].kind = kind}

NoExternalCall(d) == calls[d] = << >> /\ conversation_id[d] = Missing

BodyParses(d) == json_loads(req[d].body).ok
Payload(d) == json_loads(req[d].body).value

\* The signature check let the delivery through (it passed or was skipped).
SignatureAccepted(d) == sig[d] \in {"True", "skipped"}

-----------------------------------------------------------------------------
(* Properties *)

\* C1: whenever verify_signature was applied, it returned True exactly when
\* the header is 'sha256=' followed by the hex HMAC-SHA256 of the payload
\* under the secret, and it returned False for every other header.
C1_VerifyDecides ==
    \A d \in Deliveries :
        (Delivered(d) /\ sig[d] # "skipped") =>
            /\ sig[d] = "True" <=> req[d].header.value = ExpectedHeader(d)
            /\ req[d].header.value # ExpectedHeader(d) => sig[d] = "False"

\* C2: with a secret configured, a delivery that carries a signature header
\* that is not the expected one is answered 401 'Invalid signature', and no
\* gateway call is made and no conversation is created for it.
C2_BadSignatureRejected ==
    \A d \in Deliveries :
        ( /\ Delivered(d)
          /\ Truthy(config.secret)
          /\ req[d].header.present
          /\ req[d].header.value # ExpectedHeader(d) ) =>
            /\ resp[d].status = HTTP_401_UNAUTHORIZED
            /\ resp[d].detail = "Invalid signature"
            /\ ~OrchestratorInvoked(d)
            /\ NoExternalCall(d)

\* C3: with a secret configured, a delivery without a signature header is
\* answered 401 and never reaches payload dispatch or the orchestrator.
C3_MissingSignatureRejected ==
    \A d \in Deliveries :
        (Delivered(d) /\ Truthy(config.secret) /\ ~req[d].header.present) =>
            /\ resp[d].status = HTTP_401_UNAUTHORIZED
            /\ ~OrchestratorInvoked(d)
            /\ NoExternalCall(d)

\* C4: a delivery whose signature check returned False is answered 401 also
\* when its body is not valid JSON; a delivery whose body is not valid JSON
\* and whose signature check passed or was skipped is answered 400 'Invalid
\* JSON payload' without the orchestrator, whatever the event type.
C4_SignatureBeforeParsing ==
    \A d \in Deliveries :
        (Delivered(d) /\ ~BodyParses(d)) =>
            /\ sig[d] = "False" => resp[d].status = HTTP_401_UNAUTHORIZED
            /\ SignatureAccepted(d) =>
                  /\ resp[d].status = HTTP_400_BAD_REQUEST
                  /\ resp[d].detail = "Invalid JSON payload"
                  /\ ~OrchestratorInvoked(d)
                  /\ NoExternalCall(d)

\* The action of a pull_request delivery; None when there is none to read.
ActionOf(d) == IF IsDict(Payload(d)) THEN get(Payload(d), "action", None) ELSE None

Eligible(d) ==
    /\ req[d].event = "pull_request"
    /\ ActionOf(d) \in {Str("opened"), Str("synchronize")}

\* C5: a delivery that got past the signature check and the parser, and
\* whose event type is not pull_request or whose action is neither opened
\* nor synchronize (or is missing), never invokes the orchestrator, makes
\* no gateway call, creates no conversation and is answered 200; a ping is
\* answered 'Webhook received successfully'.
C5_IneligibleIgnored ==
    \A d \in Deliveries :
        (Delivered(d) /\ SignatureAccepted(d) /\ BodyParses(d) /\ ~Eligible(d)) =>
            /\ ~OrchestratorInvoked(d)
            /\ NoExternalCall(d)
            /\ resp[d].status = 200
            /\ req[d].event = "ping" => resp[d].message = "Webhook received successfully"

\* repository.full_name of the payload; None when it is missing.
FullNameOf(d) ==
    LET repository == get(Payload(d), "repository", EmptyDict) IN
    IF IsDict(repository) THEN get(repository, "full_name", None) ELSE None

\* C6: for an eligible pull_request delivery that got past the signature
\* check, a full_name outside a non-empty allow-list (a missing one too)
\* never invokes the orchestrator and is answered 200 'not configured'; an
\* empty allow-list filters no repository.
C6_AllowList ==
    \A d \in Deliveries :
        (Delivered(d) /\ SignatureAccepted(d) /\ BodyParses(d) /\ Eligible(d)) =>
            /\ ( /\ Len(config.allowed_repositories) > 0
                 /\ ~InList(FullNameOf(d), config.allowed_repositories) ) =>
                    /\ ~OrchestratorInvoked(d)
                    /\ NoExternalCall(d)
                    /\ resp[d].status = 200
                    /\ resp[d].message = "Repository {repo_name} not configured for PR reviews"
            /\ Len(config.allowed_repositories) = 0 =>
                    resp[d].message # "Repository {repo_name} not configured for PR reviews"

\* A call of the step kinds C7 names failed: the PR metadata fetch, the
\* file-list fetch, the conversation creation or a message send.
StepFailed(d) ==
    \E i \in CallsTo(d, {"get_pr", "get_files", "create_new_conversation", "send_event"}) :
        ~calls[d][i].ok

ReportsError(d) ==
    /\ resp[d].message = "Error processing PR review: {e}"
    /\ resp[d].pr_number = reviewer[d].pr_number
    /\ resp[d].repo = reviewer[d].repo_name

\* C7: a delivery that reached the orchestrator is answered 200 and no
\* exception reaches the transport layer; when a step of review_pr failed
\* (metadata fetch, file-list fetch, conversation creation, a message
\* send), the answer's message reports the error with pr_number and repo.
C7_FailuresReported ==
    \A d \in Deliveries :
        (OrchestratorInvoked(d) /\ Answered(d)) =>
            /\ resp[d].status = 200
            /\ StepFailed(d) => ReportsError(d)

\* The PR metadata fetch or the file-list fetch of the cycle failed.
FetchFailed(d) == \E i \in CallsTo(d, {"get_pr", "get_files"}) : ~calls[d][i].ok

\* C8: when the PR metadata fetch or the file-list fetch fails, the cycle
\* never calls create_new_conversation and sends no message.
C8_FetchFailureAborts ==
    \A d \in Deliveries :
        FetchFailed(d) =>
            /\ CallsTo(d, {"create_new_conversation", "send_event"}) = {}
            /\ conversation_id[d] = Missing

\* A cycle stopped by a failed fetch, after the other fetch succeeded.
C8_Witness ==
    \E d \in Deliveries :
        /\ Answered(d)
        /\ Len(calls[d]) = 2
        /\ calls[d][1].ok
        /\ ~calls[d][2].ok
        /\ ReportsError(d)

AllCallsSucceed(d) == \A i \in DOMAIN calls[d] : calls[d][i].ok

\* C9: an eligible delivery all of whose gateway and conversation calls
\* succeed creates exactly one conversation, sends exactly one diff message
\* for each file with a non-empty patch and exactly one review request, and
\* is answered 200 with a non-empty conversation_id, whatever the file list.
C9_HappyPath ==
    \A d \in Deliveries :
        (OrchestratorInvoked(d) /\ Answered(d) /\ AllCallsSucceed(d)) =>
            /\ Cardinality(CallsTo(d, {"create_new_conversation"})) = 1
            /\ \A i \in DOMAIN pr_files[d] :
                  pr_files[d][i].patch # "" =>
                      Cardinality({c \in Sends(d, "patch") : calls[d][c].idx = i}) = 1
            /\ Cardinality(Sends(d, "review_request")) = 1
            /\ resp[d].status = 200
            /\ resp[d].conversation_id \in {Uuid(n) : n \in 1..uuids}

\* Positions in calls[d] of the per-file messages.
FileSends(d) == {i \in DOMAIN calls[d] : calls[d][i].api = "send_event" /\ calls[d][i].idx > 0}

\* Positions in calls[d] of the calls made for a file: content fetches and
\* per-file messages.
FileCalls(d) == {i \in DOMAIN calls[d] : calls[d][i].idx > 0}

\* C10: the per-file messages are sent in file-list order, at most one per
\* file, each for a file of the list and of the kind its patch decides, and
\* no call for a file is made before a call for an earlier file.
C10_OrderPreserving ==
    \A d \in Deliveries :
        /\ \A p, q \in FileCalls(d) : p < q => calls[d][p].idx <= calls[d][q].idx
        /\ \A p, q \in FileSends(d) : p < q => calls[d][p].idx < calls[d][q].idx
        /\ \A p \in FileSends(d) :
              /\ calls[d][p].idx \in DOMAIN pr_files[d]
              /\ calls[d][p].kind = "patch" <=> pr_files[d][calls[d][p].idx].patch # ""
              /\ calls[d][p].kind = "content" <=> pr_files[d][calls[d][p].idx].patch = ""

\* A cycle that sent a message for two files, the first after a content
\* fetch, and then the review request.
C10_Witness ==
    \E d \in Deliveries :
        /\ Answered(d)
        /\ Cardinality(FileSends(d)) >= 2
        /\ Sends(d, "patch") # {}
        /\ Sends(d, "content") # {}
        /\ Sends(d, "review_request") # {}

\* Positions in calls[d] of the content fetches.
ContentFetches(d) == CallsTo(d, {"get_content"})

\* C11: a content fetch is issued only for a file without a patch whose
\* status is not 'removed'; a file with a patch gets no content fetch,
\* whatever its status; a removed file without a patch gets no call at all.
C11_ContentFetchOnlyWhenNeeded ==
    \A d \in Deliveries :
        /\ \A c \in ContentFetches(d) :
              /\ calls[d][c].idx \in DOMAIN pr_files[d]
              /\ pr_files[d][calls[d][c].idx].patch = ""
              /\ pr_files[d][calls[d][c].idx].status # "removed"
        /\ \A c \in FileCalls(d) :
              LET file == pr_files[d][calls[d][c].idx] IN
              ~(file.patch = "" /\ file.status = "removed")

\* A finished cycle over a removed file without a patch followed by a file
\* whose content was fetched: one content fetch, for the second file.
C11_Witness ==
    \E d \in Deliveries :
        /\ Answered(d)
        /\ Len(pr_files[d]) = 2
        /\ pr_files[d][1].patch = "" /\ pr_files[d][1].status = "removed"
        /\ Cardinality(ContentFetches(d)) = 1
        /\ \A c \in FileCalls(d) : calls[d][c].idx = 2
        /\ Sends(d, "review_request") # {}

\* A content fetch of the cycle failed, and no other call did.
OnlyContentFetchFailed(d) ==
    /\ \E c \in ContentFetches(d) : ~calls[d][c].ok
    /\ \A i \in DOMAIN calls[d] : i \notin ContentFetches(d) => calls[d][i].ok

\* C12: when a content fetch fails (and nothing else does), no message is
\* sent for that file, every later file is still processed, the review
\* request is still sent and review_pr returns the conversation id.
C12_ContentFetchFailureNonFatal ==
    \A d \in Deliveries :
        (Answered(d) /\ OnlyContentFetchFailed(d)) =>
            /\ \A c \in ContentFetches(d) :
                  ~calls[d][c].ok =>
                      \A m \in FileSends(d) : calls[d][m].idx # calls[d][c].idx
            /\ idx[d] > Len(pr_files[d])
            /\ Sends(d, "review_request") # {}
            /\ result[d].conversation_id = conversation_id[d]
            /\ conversation_id[d] # Missing

\* review_pr returned.
Returned(d) == result[d] # NoResult

\* The fix-PR step was attempted: its log line was written.
FixAttempted(d) == \E i \in DOMAIN log[d] : log[d][i] = create_fix_pr.log

\* C13: a cycle that returned attempted the fix-PR step exactly when the
\* auto-fix flag is set.
C13_AutoFixAttempted ==
    \A d \in Deliveries :
        Returned(d) => (FixAttempted(d) <=> reviewer[d].auto_fix)

\* The cycle created its conversation.
Created(d) == conversation_id[d] # Missing

\* review_pr raised after the conversation was created.
FailedAfterCreation(d) == Answered(d) /\ Created(d) /\ ~Returned(d)

LastCall(d) == calls[d][Len(calls[d])]

\* C14 as claimed: once the conversation is created, the failure of a later
\* call never makes review_pr raise.
C14_NoCallFailureAfterCreation ==
    \A d \in Deliveries :
        (Answered(d) /\ Created(d)) =>
            resp[d].arg \notin {Str("ConversationError"), Str("GatewayError")}

\* C14 as amended: review_pr raises after the conversation was created only
\* on a failed patch-message send, on a failed review-request send, or on
\* reaching a patched file with MessageAction unbound; a failed content
\* fetch or a failed send of fetched content never ends the cycle by
\* itself, and a cycle that returns has sent the review request.
C14_FailureAfterCreation ==
    \A d \in Deliveries :
        /\ FailedAfterCreation(d) =>
              /\ ReportsError(d)
              /\ \/ /\ resp[d].arg = Str("ConversationError")
                     /\ LastCall(d).api = "send_event"
                     /\ LastCall(d).kind \in {"patch", "review_request"}
                     /\ ~LastCall(d).ok
                 \/ /\ resp[d].arg = Str("UnboundLocalError")
                     /\ idx[d] \in DOMAIN pr_files[d]
                     /\ pr_files[d][idx[d]].patch # ""
                     /\ ~imported[d]
        /\ Returned(d) =>
              /\ Created(d)
              /\ idx[d] > Len(pr_files[d])
              /\ LastCall(d).kind = "review_request" /\ LastCall(d).ok

\* A cycle that fetched and sent one file's content and then failed on the
\* send of the next file's patch.
C14_Witness ==
    \E d \in Deliveries :
        /\ FailedAfterCreation(d)
        /\ Sends(d, "content") # {}
        /\ LastCall(d).kind = "patch"
        /\ ~LastCall(d).ok

\* C15: the calls of a cycle come in a fixed order: the metadata fetch,
\* then the file-list fetch, then the conversation creation, each only
\* after the one before succeeded; messages and content fetches only after
\* the creation succeeded; the review request at most once, as the last
\* call and after every file was processed; review_pr returns only after
\* the review request was sent.
C15_CallOrder ==
    \A d \in Deliveries :
        /\ \A i \in DOMAIN calls[d] :
              /\ i = 1 <=> calls[d][i].api = "get_pr"
              /\ i = 2 <=> calls[d][i].api = "get_files"
              /\ i = 3 <=> calls[d][i].api = "create_new_conversation"
              /\ i > 1 => calls[d][1].ok
              /\ i > 2 => calls[d][2].ok
              /\ i > 3 => calls[d][3].ok /\ calls[d][i].api \in {"get_content", "send_event"}
        /\ Cardinality(Sends(d, "review_request")) <= 1
        /\ \A r \in Sends(d, "review_request") :
              /\ r = Len(calls[d])
              /\ idx[d] > Len(pr_files[d])
        /\ Returned(d) => LastCall(d).kind = "review_request" /\ LastCall(d).ok

\* A returned cycle with a content fetch, a content message and a patch
\* message before the review request.
C15_Witness ==
    \E d \in Deliveries :
        /\ Returned(d)
        /\ Len(calls[d]) = 7
        /\ Sends(d, "patch") # {}

Creations(d) ==
    {i \in CallsTo(d, {"create_new_conversation"}) : calls[d][i].ok}

\* C17: with two deliveries of the same event interleaved at their awaits,
\* each cycle creates at most one conversation, a returned cycle exactly
\* one; the conversations of two cycles differ, two returned cycles leave
\* two conversations; every message of a cycle goes to its own conversation
\* and never to the other cycle's.
C17_IndependentConversations ==
    /\ \A d \in Deliveries :
          /\ Cardinality(CallsTo(d, {"create_new_conversation"})) <= 1
          /\ Returned(d) => Cardinality(Creations(d)) = 1
          /\ \A i \in Creations(d) :
                calls[d][i].cid = conversation_id[d] /\ conversation_id[d] \in conversations
          /\ \A m \in CallsTo(d, {"send_event"}) :
                /\ Created(d)
                /\ calls[d][m].cid = conversation_id[d]
                /\ \A e \in Deliveries \ {d} : calls[d][m].cid # conversation_id[e]
    /\ \A d, e \in Deliveries :
          (d # e /\ Created(d) /\ Created(e)) => conversation_id[d] # conversation_id[e]
    /\ (\A d \in Deliveries : Returned(d)) =>
          Cardinality(conversations) = Cardinality(Deliveries)

\* The second delivery created its conversation first and is still in its
\* cycle, with a diff message sent, when the first delivery has returned.
C17_Witness ==
    /\ Returned("d1")
    /\ conversation_id["d2"] = Uuid(1)
    /\ conversation_id["d1"] = Uuid(2)
    /\ pc["d2"] = "send_review"
    /\ FileSends("d1") # {}
    /\ FileSends("d2") # {}

\* C18 as claimed: a delivery that got past the signature check and whose
\* body parses as JSON is answered 200.
C18_ParsedBodyAnswered200 ==
    \A d \in Deliveries :
        (Answered(d) /\ SignatureAccepted(d) /\ BodyParses(d)) => resp[d].status = 200

\* pull_request.number of the payload; None when it is missing.
NumberOf(d) ==
    LET pr_data == get(Payload(d), "pull_request", EmptyDict) IN
    IF IsDict(pr_data) THEN get(pr_data, "number", None) ELSE None

\* The id the cycle passed to create_new_conversation.
CreationId(d) == calls[d][3].cid

\* C19: the id passed to the conversation creation is one drawn by the
\* orchestrator; every message of the cycle is sent to it; the result of
\* review_pr and the 200 response carry it, together with the pr_number
\* and the repository name of the delivery's payload.
C19_OneConversationId ==
    \A d \in Deliveries :
        /\ \A i \in CallsTo(d, {"create_new_conversation", "send_event"}) :
              /\ calls[d][i].cid = CreationId(d)
              /\ \E n \in 1..uuids : CreationId(d) = Uuid(n)
        /\ Created(d) => conversation_id[d] = CreationId(d)
        /\ Returned(d) =>
              /\ result[d].conversation_id = CreationId(d)
              /\ result[d].pr_number = NumberOf(d)
              /\ result[d].repo_name = FullNameOf(d)
              /\ resp[d].status = 200
              /\ resp[d].conversation_id = CreationId(d)
              /\ resp[d].pr_number = NumberOf(d)
              /\ resp[d].repo = FullNameOf(d)

\* A returned cycle that sent a patch message and the review request.
C19_Witness ==
    \E d \in Deliveries :
        /\ Returned(d)
        /\ Sends(d, "patch") # {}
        /\ Sends(d, "review_request") # {}
        /\ resp[d].conversation_id = Uuid(1)
        /\ resp[d].pr_number = NumberOf(d)

\* What github_webhook does with the delivery when a secret is configured
\* and the header is the valid signature of the body under it.
WithValidSignature(d) ==
    github_webhook(req[d].event,
                   Header(Sha256Prefix \o hexdigest("s3cret", req[d].body)),
                   req[d].body,
                   [config EXCEPT !.secret = "s3cret"])

\* C20: with no secret configured the signature check is skipped for every
\* header, no delivery is answered 401, and the delivery is routed as one
\* with a valid signature is: the same answer, or the same PRReviewer.
C20_NoSecretSkipsVerification ==
    \A d \in Deliveries :
        (Delivered(d) /\ ~Truthy(config.secret)) =>
            /\ sig[d] = "skipped"
            /\ resp[d].status # HTTP_401_UNAUTHORIZED
            /\ WithValidSignature(d).sig = "True"
            /\ LET v == WithValidSignature(d).out IN
               IF v.kind = "review"
               THEN reviewer[d] = PRReviewer(v.repo_name, v.pr_number, config.auto_fix)
               ELSE /\ ~OrchestratorInvoked(d)
                    /\ resp[d] = v.resp

\* No secret, a header with the wrong prefix, and the cycle returned.
C20_Witness ==
    \E d \in Deliveries :
        /\ ~Truthy(config.secret)
        /\ req[d].header.present
        /\ startswith(req[d].header.value, Sha1Prefix)
        /\ Returned(d)

====
